---- MODULE Spec2Model ----
(***************************************************************************)
(* My-Pharma backend: the authentication subsystem, and the products,      *)
(* prescriptions and orders of the core app, as a state machine.           *)
(*                                                                         *)
(* State: the `users` table, the `user_sessions` table, the cache (OTP     *)
(* records, resend cooldown flags, DRF throttle histories), the JWT tables *)
(* (simplejwt outstanding / blacklisted tokens, the application's          *)
(* BlacklistedToken table), a clock, and the last HTTP response.           *)
(* One action per request handler, model method or periodic task.          *)
(* Times are seconds.  A cache key written at time t with timeout d is     *)
(* readable while now < t + d.  A null timestamp is None (-1).             *)
(***************************************************************************)
EXTENDS Integers, Sequences, FiniteSets, TLC

(***************************************************************************)
(* Bounds of the model                                                     *)
(***************************************************************************)
MaxTicks == 1
MaxJti == 4
MaxOtpRequests == 4
MaxResetTokens == 2
MaxPrescriptions == 1
MaxOrders == 2
MaxQty == 2
MaxStock == 2

(***************************************************************************)
(* Program constants                                                       *)
(*                                                                         *)
(* services.py and views.py read settings.OTP_EXPIRY_MINUTES,              *)
(* OTP_MAX_RESEND_ATTEMPTS, ACCOUNT_LOCKOUT_THRESHOLD and                  *)
(* ACCOUNT_LOCKOUT_DURATION_MINUTES; my_pharma/settings.py sets the same   *)
(* quantities under the names AUTH_OTP_EXPIRY_MINUTES,                     *)
(* AUTH_OTP_MAX_RESEND_PER_HOUR, AUTH_MAX_FAILED_LOGIN_ATTEMPTS and        *)
(* AUTH_ACCOUNT_LOCKOUT_MINUTES.  The model takes the configured values.   *)
(***************************************************************************)
OTP_EXPIRY_MINUTES == 5
OTP_MAX_RESEND_ATTEMPTS == 3
ACCOUNT_LOCKOUT_THRESHOLD == 5
ACCOUNT_LOCKOUT_DURATION_MINUTES == 30
RESEND_COOLDOWN_SECONDS == 3600
ACCESS_TOKEN_LIFETIME == 86400
REFRESH_TOKEN_LIFETIME == 604800
ROTATE_REFRESH_TOKENS == TRUE
BLACKLIST_AFTER_ROTATION == TRUE
OTP_THROTTLE_NUM == 3
LOGIN_THROTTLE_NUM == 5
THROTTLE_DURATION == 60
PASSWORD_RESET_TOKEN_LIFETIME == 3600
\* send_otp_sms_task: retries allowed after the first run
max_retries == 3

\* The null timestamp (no time is negative).
None == 0 - 1

(***************************************************************************)
(* Input domains                                                           *)
(***************************************************************************)
UserIds == {"u1", "u2"}
NoUid == "none"
Digits == {"8801711", "8801812"}
\* A phone string accepted by the serializers' regex ^\+?[1-9]\d{6,14}$ :
\* an optional leading '+' and the digits.
Phones == [plus : BOOLEAN, digits : Digits]
NoPhone == [plus |-> FALSE, digits |-> "none"]
\* The number submitted to the OTP views, and its two spellings as submitted
\* to the phone registration and login views.
OtpPhones == [plus : {FALSE}, digits : {"8801711"}]
LoginPhones == [plus : BOOLEAN, digits : {"8801711"}]
\* An email address local@domain.
Emails == [local : {"a"}, domain : {"x.io"}]
NoEmail == [local |-> "none", domain |-> "none"]
\* Passwords that pass EmailRegistrationSerializer.validate_password.
Passwords == {"Passw0rd!A", "Passw0rd!B"}
RandomPassword == "random"
OtpCodes == {"111111", "222222"}
\* Two of the purposes OTPSendSerializer accepts.
Purposes == {"REGISTRATION", "LOGIN"}
ClientIPs == {"ip1"}
\* Requests the server works on at the same time (worker threads).
Requests == {"r1", "r2"}
\* Clock advances tried under each specification.
OtpTicks == {301, 3600}
LoginTicks == {60, 1800}
TokenTicks == {3600, 86400}

Roles == {"SUPER_ADMIN", "PHARMACY_ADMIN", "DOCTOR", "REGISTERED_USER", "GUEST_USER"}
Capabilities ==
    {"user.view", "user.create", "user.edit", "user.delete",
     "pharmacy.view", "pharmacy.manage", "product.view", "product.manage",
     "prescription.view", "prescription.create", "prescription.approve",
     "order.view", "order.manage", "payment.view", "payment.process",
     "report.view", "report.generate", "system.config", "audit.view"}

ROLE_PERMISSIONS(role) ==
    CASE role = "SUPER_ADMIN" -> Capabilities
      [] role = "PHARMACY_ADMIN" ->
            {"user.view", "user.create", "user.edit",
             "pharmacy.view", "pharmacy.manage", "product.view", "product.manage",
             "prescription.view", "prescription.approve",
             "order.view", "order.manage", "payment.view", "payment.process",
             "report.view", "report.generate"}
      [] role = "DOCTOR" ->
            {"product.view", "prescription.view", "prescription.create",
             "order.view", "report.view"}
      [] role = "REGISTERED_USER" ->
            {"product.view", "prescription.view", "order.view", "order.manage"}
      [] role = "GUEST_USER" -> {"product.view"}
      [] OTHER -> {}

(***************************************************************************)
(* State                                                                   *)
(***************************************************************************)
VARIABLES
    now,            \* the clock (timezone.now()), seconds
    ticks,          \* clock advances so far
    users,          \* table users: UserIds -> row
    sessions,       \* table user_sessions: the token_jti values stored
    otpCache,       \* cache otp:{phone}:{purpose}
    resendCooldown, \* cache otp_resend:{phone}: expiry of the flag, or None
    otpAttempts,    \* cache otp_attempts:{phone}: the resend counter
    throttleHist,   \* cache throttle_anon_{ip}: request times, newest first
    nextJti,        \* next fresh token identifier
    outstanding,    \* simplejwt OutstandingToken rows
    sjBlacklist,    \* simplejwt BlacklistedToken rows (by jti)
    appBlacklist,   \* table blacklisted_tokens (by token string)
    redisBlacklist, \* cache blacklist consulted by JWTAuthWithBlacklist (by jti)
    issued,         \* history: the tokens handed to clients in response bodies
    resp,           \* the last HTTP response, with the request it answers
    otpIssued,      \* history: the last OTP stored per (phone, purpose)
    otpLog,         \* history: times of accepted OTP requests per phone
    loggedOut,      \* history: the tokens presented in logout requests
    resetTokens,    \* table password_reset_tokens
    smsJobs,        \* the Celery jobs send_otp_sms_task dispatched with delay()
    inflight,       \* email logins in progress: the User instance each has loaded
    confirms,       \* password-reset confirmations in progress: the token row each has loaded
    products,       \* table core_product: ProductIds -> row
    prescriptions,  \* tables core_prescription and core_prescription_item
    orders,         \* tables core_order and core_order_item
    placing,        \* order creations in progress: the instances each has loaded
    stocked         \* history: per product, the units put into stock by product creation
                    \* and inventory updates, net of the units those took out

clockVars == <<now, ticks>>
userVars == <<users, sessions>>
otpVars == <<otpCache, resendCooldown, otpAttempts>>
throttleVars == <<throttleHist>>
tokenVars == <<nextJti, outstanding, sjBlacklist, appBlacklist, redisBlacklist, issued>>
histVars == <<otpIssued, otpLog, loggedOut>>
resetVars == <<resetTokens>>
coreVars == <<products, prescriptions, orders, placing, stocked>>
vars == <<now, ticks, users, sessions, otpCache, resendCooldown, otpAttempts,
          throttleHist, nextJti, outstanding, sjBlacklist,
          appBlacklist, redisBlacklist, issued, resp, otpIssued, otpLog,
          loggedOut, resetTokens, smsJobs, inflight, confirms,
          products, prescriptions, orders, placing, stocked>>

NoUser ==
    [exists |-> FALSE, phone |-> NoPhone, email |-> NoEmail, password |-> "none",
     role |-> "none", status |-> "none", is_active |-> FALSE,
     is_superuser |-> FALSE, permissions |-> {},
     failed_login_attempts |-> 0, locked_until |-> None, deleted_at |-> None]

\* A login request that has not loaded a user.
NoRequest == [user |-> NoUser, uid |-> NoUid, password |-> "none"]

\* A confirmation request that has not loaded a token row.
NoConfirm == [token |-> [id |-> 0, uid |-> NoUid, expires_at |-> None, is_used |-> FALSE],
              password |-> "none", at |-> None]

\* Product slugs.
ProductIds == {"p1", "p2"}
\* The line items an order request carries: sequences of at most two entries.
ItemLists ==
    LET OrderItems == [product : ProductIds, quantity : 1..MaxQty]
    IN  {<<i>> : i \in OrderItems} \cup {<<i, j>> : i, j \in OrderItems}
\* The data of a verification request: a status ("absent": the field is not
\* sent), whether the doctor's details come with it, and the medicines, none
\* or one entry.
VerifyData ==
    [status : {"REJECTED", "USED", "absent"}, details : {FALSE}, items : {<<>>}]
        \cup [status : {"APPROVED"}, details : {FALSE}, items : {<<>>}]
        \cup [status : {"APPROVED"}, details : {TRUE},
              items : {<<>>} \cup {<<i>> : i \in [product : ProductIds,
                                                  quantity_prescribed : 1..MaxQty]}]
\* An order creation that has not validated its request.
NoPlacing == [user |-> NoUid, items |-> <<>>, prescription |-> 0,
              products |-> <<>>,
              instance |-> [user |-> NoUid, status |-> "none", items |-> {}]]

NoToken == [jti |-> 0, typ |-> "none", uid |-> NoUid, exp |-> 0]
NoOtp == [otp |-> "none", created_at |-> None, exp |-> None]
NoIssue == [otp |-> "none", at |-> None, used |-> FALSE]

\* A response: the handler that answered (op), the HTTP status and the `code`
\* of the JSON body, and the tokens in the body (no handler puts a
\* registration token into its body).
\* The last fields record what held when the request arrived: the code had
\* already been verified (replay), the age of the code, the number of OTP
\* requests accepted before (prior), the number was already bound to a user
\* (bound), the account was locked / its lock had
\* run out.
NoResp ==
    [op |-> "none", status |-> 0, code |-> "none",
     uid |-> NoUid, correct |-> FALSE,
     access |-> NoToken, refresh |-> NoToken, presented |-> NoToken,
     replay |-> FALSE, age |-> None, prior |-> 0,
     locked |-> FALSE, lockExpired |-> FALSE, bound |-> FALSE,
     registration_token |-> "none"]

Init ==
    /\ now = 0
    /\ ticks = 0
    /\ users = [u \in UserIds |-> NoUser]
    /\ sessions = {}
    /\ otpCache = [k \in Phones \X Purposes |-> NoOtp]
    /\ resendCooldown = [p \in Phones |-> None]
    /\ otpAttempts = [p \in Phones |-> 0]
    /\ throttleHist = [ip \in ClientIPs |-> <<>>]
    /\ nextJti = 1
    /\ outstanding = {}
    /\ sjBlacklist = {}
    /\ appBlacklist = {}
    /\ redisBlacklist = {}
    /\ issued = {}
    /\ resp = NoResp
    /\ otpIssued = [k \in Phones \X Purposes |-> NoIssue]
    /\ otpLog = [p \in Phones |-> <<>>]
    /\ loggedOut = {}
    /\ resetTokens = {}
    /\ smsJobs = {}
    /\ inflight = [r \in Requests |-> NoRequest]
    /\ confirms = [r \in Requests |-> NoConfirm]
    /\ products = [p \in ProductIds |->
                      [exists |-> FALSE, requires_prescription |-> FALSE,
                       quantity_in_stock |-> 0]]
    /\ prescriptions = <<>>
    /\ orders = <<>>
    /\ placing = [r \in Requests |-> NoPlacing]
    /\ stocked = [p \in ProductIds |-> 0]

(***************************************************************************)
(* The clock                                                               *)
(***************************************************************************)
\* Cache keys whose timeout has run out are gone (the throttle history is
\* stored with the window as its timeout).
Expire(exp, t) == IF exp # None /\ exp <= t THEN None ELSE exp

Tick(d) ==
    /\ ticks < MaxTicks
    /\ now' = now + d
    /\ ticks' = ticks + 1
    /\ otpCache' = [k \in DOMAIN otpCache |->
                       IF Expire(otpCache[k].exp, now + d) = None
                       THEN NoOtp ELSE otpCache[k]]
    /\ resendCooldown' = [p \in DOMAIN resendCooldown |->
                             Expire(resendCooldown[p], now + d)]
    /\ throttleHist' = [ip \in DOMAIN throttleHist |->
                           IF throttleHist[ip] # <<>>
                              /\ throttleHist[ip][1] + THROTTLE_DURATION <= now + d
                           THEN <<>> ELSE throttleHist[ip]]
    /\ UNCHANGED <<userVars, otpAttempts, tokenVars, resp, histVars, resetVars, smsJobs, inflight, confirms,
                   coreVars>>

(***************************************************************************)
(* DRF throttling (AnonRateThrottle subclasses share the scope "anon")     *)
(***************************************************************************)
\* SimpleRateThrottle.allow_request: drop the entries older than the window.
ThrottleWindow(ip) ==
    SelectSeq(throttleHist[ip], LAMBDA t : t > now - THROTTLE_DURATION)

RateAllows(ip, num) == Len(ThrottleWindow(ip)) < num

\* OTPRateThrottle: rate '3/minute'.
OTPRateThrottle_allow(ip) == RateAllows(ip, OTP_THROTTLE_NUM)

\* LoginRateThrottle.allow_request: the lockout flag lockout:{ip} first, then
\* rate '5/minute'.  No code path ever sets the flag: the only writer is
\* throttle_failure(self, request), which DRF calls without the argument, so
\* the call raises TypeError before its body runs.
LoginRateThrottle_allow(ip) == RateAllows(ip, LOGIN_THROTTLE_NUM)

\* throttle_success: the request time is put at the head of the history.
ThrottleSuccess(ip) ==
    throttleHist' = [throttleHist EXCEPT ![ip] = <<now>> \o ThrottleWindow(ip)]

\* A request OTPRateThrottle refuses: 429 (Throttled), only the response changes.
OTPThrottled(ip, op, phone) ==
    /\ ~OTPRateThrottle_allow(ip)
    /\ resp' = [NoResp EXCEPT !.op = op, !.status = 429, !.code = "ERROR"]
    /\ UNCHANGED <<clockVars, resetVars, inflight, confirms, coreVars, smsJobs, userVars, otpVars, throttleVars, tokenVars, histVars>>

\* A request over LoginRateThrottle's rate: throttle_failure() raises TypeError,
\* the exception handler answers 500 INTERNAL_ERROR.
LoginThrottled(ip, op) ==
    /\ ~LoginRateThrottle_allow(ip)
    /\ resp' = [NoResp EXCEPT !.op = op, !.status = 500, !.code = "INTERNAL_ERROR"]
    /\ UNCHANGED <<clockVars, resetVars, inflight, confirms, coreVars, smsJobs, userVars, otpVars, throttleVars, tokenVars, histVars>>

(***************************************************************************)
(* The cache and the users table                                           *)
(***************************************************************************)
\* cache.get finds a key whose expiry is still ahead.
CacheLive(exp) == exp # None /\ now < exp

\* UserManager.normalize_phone: the leading '+' is removed.
normalize_phone(phone) == [phone EXCEPT !.plus = FALSE]

\* User.save: the permission list is filled from the role only when empty.
save_permissions(permissions, role) ==
    IF permissions = {} /\ role # "none" THEN ROLE_PERMISSIONS(role) ELSE permissions

\* UserManager.create_user: the row that is inserted.
create_user(phone, email, password, role, status, is_superuser) ==
    [exists |-> TRUE,
     phone |-> normalize_phone(phone),
     email |-> email,
     password |-> IF password = "none" THEN RandomPassword ELSE password,
     role |-> role,
     status |-> status,
     is_active |-> TRUE,
     is_superuser |-> is_superuser,
     permissions |-> save_permissions({}, role),
     failed_login_attempts |-> 0,
     locked_until |-> None,
     deleted_at |-> None]

\* User.objects.filter(phone=...) / filter(email=...): exact match on the column.
UsersByPhone(phone) == {u \in UserIds : users[u].exists /\ users[u].phone = phone}
UsersByEmail(email) == {u \in UserIds : users[u].exists /\ users[u].email = email}
FreeUids == {u \in UserIds : ~users[u].exists}

\* The unique constraints on users.phone and users.email.
IntegrityError(row) ==
    \/ UsersByPhone(row.phone) # {}
    \/ (row.email # NoEmail /\ UsersByEmail(row.email) # {})

is_account_locked(user) == user.locked_until # None /\ user.locked_until > now

can_login_ignoring_lock(user) == user.is_active

can_login(user) ==
    /\ user.is_active
    /\ ~is_account_locked(user)
    /\ user.status \in {"ACTIVE", "PENDING_VERIFICATION"}

(***************************************************************************)
(* OTPService                                                              *)
(***************************************************************************)
\* store_otp: the timeout given to cache.set, expiry_minutes * 60.
OtpTimeoutHours == OTP_EXPIRY_MINUTES * 3600
OtpTimeout == OTP_EXPIRY_MINUTES * 60

\* store_otp: the OTP record replaces any earlier one for (phone, purpose) and
\* the one-hour resend flag of the phone is set.
store_otp(phone, otp, purpose) ==
    /\ otpCache' = [otpCache EXCEPT ![<<phone, purpose>>] =
                       [otp |-> otp, created_at |-> now, exp |-> now + OtpTimeout]]
    /\ resendCooldown' = [resendCooldown EXCEPT ![phone] = now + RESEND_COOLDOWN_SECONDS]
    /\ otpIssued' = [otpIssued EXCEPT ![<<phone, purpose>>] =
                        [otp |-> otp, at |-> now, used |-> FALSE]]
    /\ otpLog' = [otpLog EXCEPT ![phone] = Append(@, now)]
    /\ UNCHANGED loggedOut

\* send_otp_sms_task.delay(phone, otp, purpose): a message for the workers is
\* put on the broker (CELERY_TASK_ALWAYS_EAGER is off with USE_REDIS); the
\* job is numbered by the accepted OTP request of the phone it belongs to.
\* The text of the SMS plays no part in what a job does and is left out.
SmsJob(phone, purpose) ==
    [phone |-> phone, purpose |-> purpose, id |-> Len(otpLog[phone]) + 1,
     retries |-> 0, attempts |-> 0, state |-> "queued", result |-> "none",
     errors |-> {}]

send_otp_sms_task_delay(phone, purpose) ==
    smsJobs' = smsJobs \cup {SmsJob(phone, purpose)}

\* History: the OTP requests accepted for the phone within the last hour.
AcceptedInHour(phone) ==
    Len(SelectSeq(otpLog[phone], LAMBDA t : t > now - RESEND_COOLDOWN_SECONDS))

\* can_resend_otp: no live resend flag for the phone.
can_resend_otp(phone) == ~CacheLive(resendCooldown[phone])

\* check_max_resend_attempts (no caller in the code base).
check_max_resend_attempts(phone) == otpAttempts[phone] < OTP_MAX_RESEND_ATTEMPTS

\* verify_otp: the message returned.
verify_otp_message(phone, otp, purpose) ==
    LET d == otpCache[<<phone, purpose>>] IN
    IF ~CacheLive(d.exp) THEN "OTP has expired or not found"
    ELSE IF d.otp # otp THEN "Invalid OTP"
    ELSE "OTP verified successfully"

verify_otp_ok(phone, otp, purpose) ==
    verify_otp_message(phone, otp, purpose) = "OTP verified successfully"

\* verify_otp: the cache after a successful verification (cache.delete(key)).
OtpCacheKept(phone, purpose) == otpCache
OtpCacheCleared(phone, purpose) == [otpCache EXCEPT ![<<phone, purpose>>] = NoOtp]

\* verify_otp as a step: the record is deleted only on success.
verify_otp(phone, otp, purpose) ==
    /\ otpCache' = IF verify_otp_ok(phone, otp, purpose)
                   THEN OtpCacheCleared(phone, purpose) ELSE otpCache
    /\ otpIssued' = IF verify_otp_ok(phone, otp, purpose)
                    THEN [otpIssued EXCEPT ![<<phone, purpose>>].used = TRUE]
                    ELSE otpIssued

\* History of the request: the code presented is the last one stored for
\* (phone, purpose) and it already passed verify_otp / how old that code is.
IsReplay(phone, otp, purpose) ==
    /\ otpIssued[<<phone, purpose>>].otp = otp
    /\ otpIssued[<<phone, purpose>>].used

IssueAge(phone, otp, purpose) ==
    IF otpIssued[<<phone, purpose>>].otp = otp
    THEN now - otpIssued[<<phone, purpose>>].at ELSE None

VerifyResp(op, phone, otp, purpose) ==
    [NoResp EXCEPT !.op = op, !.replay = IsReplay(phone, otp, purpose),
                   !.age = IssueAge(phone, otp, purpose)]

\* The cache backend: django_redis when USE_REDIS (the default without DEBUG).
USE_REDIS == TRUE

(***************************************************************************)
(* OTP views                                                               *)
(***************************************************************************)
\* OTPSendView.post with the code stored before the cooldown is looked at.
OTPSend_store_first(ip, phone, purpose, otp) ==
    \/ OTPThrottled(ip, "otp_send", phone)
    \/ /\ OTPRateThrottle_allow(ip)
       /\ ThrottleSuccess(ip)
       /\ Len(otpLog[phone]) < MaxOtpRequests
       /\ store_otp(phone, otp, purpose)
       /\ IF can_resend_otp(phone)
          THEN /\ send_otp_sms_task_delay(phone, purpose)
               /\ resp' = [NoResp EXCEPT !.op = "otp_send", !.status = 200, !.code = "OK",
                                         !.prior = AcceptedInHour(phone)]
          ELSE /\ resp' = [NoResp EXCEPT !.op = "otp_send", !.status = 429,
                                         !.code = "OTP_COOLDOWN",
                                         !.prior = AcceptedInHour(phone)]
               /\ UNCHANGED smsJobs
       /\ UNCHANGED <<clockVars, resetVars, inflight, confirms, coreVars, userVars, otpAttempts, tokenVars>>

\* OTPSendView.post
OTPSend(ip, phone, purpose, otp) ==
    \/ OTPThrottled(ip, "otp_send", phone)
    \/ /\ OTPRateThrottle_allow(ip)
       /\ ThrottleSuccess(ip)
       /\ ~can_resend_otp(phone)
       /\ resp' = [NoResp EXCEPT !.op = "otp_send", !.status = IF USE_REDIS THEN 429 ELSE 500,
                                 !.code = IF USE_REDIS THEN "OTP_COOLDOWN"
                                          ELSE "INTERNAL_ERROR",
                                 !.prior = AcceptedInHour(phone)]
       /\ UNCHANGED <<clockVars, resetVars, inflight, confirms, coreVars, smsJobs, userVars, otpVars, tokenVars, histVars>>
    \/ /\ OTPRateThrottle_allow(ip)
       /\ ThrottleSuccess(ip)
       /\ can_resend_otp(phone)
       /\ Len(otpLog[phone]) < MaxOtpRequests
       /\ store_otp(phone, otp, purpose)
       /\ send_otp_sms_task_delay(phone, purpose)
       /\ resp' = [NoResp EXCEPT !.op = "otp_send", !.status = 200, !.code = "OK",
                                 !.prior = AcceptedInHour(phone)]
       /\ UNCHANGED <<clockVars, resetVars, inflight, confirms, coreVars, userVars, otpAttempts, tokenVars>>

\* OTPVerifyView.post
OTPVerify(phone, otp, purpose) ==
    /\ verify_otp(phone, otp, purpose)
    /\ resp' = IF verify_otp_ok(phone, otp, purpose)
               THEN [VerifyResp("otp_verify", phone, otp, purpose)
                        EXCEPT !.status = 200, !.code = "OK"]
               ELSE [VerifyResp("otp_verify", phone, otp, purpose)
                        EXCEPT !.status = 400, !.code = "OTP_INVALID"]
    /\ UNCHANGED <<clockVars, resetVars, inflight, confirms, coreVars, smsJobs, userVars, resendCooldown, otpAttempts,
                   throttleVars, tokenVars, otpLog, loggedOut>>

(***************************************************************************)
(* TokenService                                                            *)
(***************************************************************************)
\* RefreshToken.for_user(user) and its access_token: two fresh identifiers.
NewRefresh(u) ==
    [jti |-> nextJti, typ |-> "refresh", uid |-> u,
     exp |-> now + REFRESH_TOKEN_LIFETIME]
NewAccess(u) ==
    [jti |-> nextJti + 1, typ |-> "access", uid |-> u,
     exp |-> now + ACCESS_TOKEN_LIFETIME]
CanMint == nextJti + 1 <= MaxJti

\* generate_tokens: for_user records the refresh token as outstanding.
generate_tokens(u) ==
    /\ nextJti' = nextJti + 2
    /\ outstanding' = outstanding \cup {NewRefresh(u)}
    /\ UNCHANGED <<sjBlacklist, appBlacklist, redisBlacklist>>

\* AuthenticationService.login: tokens, then create_session with token_jti =
\* str(user.id) (the test 'jti' in tokens['refresh'] is a substring test on
\* the encoded token; when it is true the subscript raises TypeError).
\* user_sessions.token_jti is unique, so a second session of one user raises
\* IntegrityError.  Either exception is answered 500.
login(u, hasJti, r) ==
    /\ CanMint
    /\ generate_tokens(u)
    /\ IF hasJti \/ u \in sessions
       THEN /\ sessions' = sessions
            /\ issued' = issued
            /\ resp' = [r EXCEPT !.uid = u, !.status = 500, !.code = "INTERNAL_ERROR"]
       ELSE /\ sessions' = sessions \cup {u}
            /\ issued' = issued \cup {NewAccess(u), NewRefresh(u)}
            /\ resp' = [r EXCEPT !.uid = u, !.status = 200, !.code = "OK",
                                 !.access = NewAccess(u), !.refresh = NewRefresh(u)]

(***************************************************************************)
(* Registration views                                                      *)
(***************************************************************************)
\* PhoneRegistrationInitView.post
PhoneRegistrationInit(ip, phone, otp) ==
    \/ OTPThrottled(ip, "register_phone_init", phone)
    \/ /\ OTPRateThrottle_allow(ip)
       /\ ThrottleSuccess(ip)
       /\ UsersByPhone(phone) # {}
       /\ resp' = [NoResp EXCEPT !.op = "register_phone_init", !.status = 400, !.code = "VALIDATION_ERROR",
                                 !.prior = AcceptedInHour(phone)]
       /\ UNCHANGED <<clockVars, resetVars, inflight, confirms, coreVars, smsJobs, userVars, otpVars, tokenVars, histVars>>
    \/ /\ OTPRateThrottle_allow(ip)
       /\ ThrottleSuccess(ip)
       /\ UsersByPhone(phone) = {}
       /\ Len(otpLog[phone]) < MaxOtpRequests
       /\ store_otp(phone, otp, "REGISTRATION")
       /\ send_otp_sms_task_delay(phone, "REGISTRATION")
       /\ resp' = [NoResp EXCEPT !.op = "register_phone_init", !.status = 200, !.code = "OK",
                                 !.prior = AcceptedInHour(phone)]
       /\ UNCHANGED <<clockVars, resetVars, inflight, confirms, coreVars, userVars, otpAttempts, tokenVars>>

\* The row register_phone inserts.
\* The non-deleted users a number is bound to, whatever its spelling.
BoundUsers(phone) ==
    {u \in UserIds : /\ users[u].exists
                     /\ users[u].deleted_at = None
                     /\ users[u].phone = normalize_phone(phone)}

PhoneUserRow(phone) ==
    create_user(phone, NoEmail, "none", "REGISTERED_USER", "ACTIVE", FALSE)

\* PhoneRegistrationVerifyView.post with RegistrationService.register_phone
PhoneRegistrationVerify(phone, otp) ==
    LET ok == verify_otp_ok(phone, otp, "REGISTRATION")
        r == [VerifyResp("register_phone_verify", phone, otp, "REGISTRATION")
                 EXCEPT !.bound = ok /\ BoundUsers(phone) # {}]
    IN
    /\ verify_otp(phone, otp, "REGISTRATION")
    /\ UNCHANGED <<clockVars, resetVars, inflight, confirms, coreVars, smsJobs, resendCooldown, throttleVars, otpLog, loggedOut>>
    /\ \/ /\ ~ok
          /\ resp' = [r EXCEPT !.status = 400, !.code = "REGISTRATION_FAILED"]
          /\ UNCHANGED <<userVars, otpAttempts, tokenVars>>
       \/ /\ ok
          /\ UsersByPhone(phone) # {}
          /\ resp' = [r EXCEPT !.status = 400, !.code = "REGISTRATION_FAILED"]
          /\ UNCHANGED <<userVars, otpAttempts, tokenVars>>
       \/ /\ ok
          /\ UsersByPhone(phone) = {}
          /\ IntegrityError(PhoneUserRow(phone))
          /\ resp' = [r EXCEPT !.status = 500, !.code = "INTERNAL_ERROR"]
          /\ UNCHANGED <<userVars, otpAttempts, tokenVars>>
       \/ /\ ok
          /\ UsersByPhone(phone) = {}
          /\ ~IntegrityError(PhoneUserRow(phone))
          /\ FreeUids # {}
          /\ CanMint
          /\ LET u == CHOOSE x \in FreeUids : TRUE IN
             /\ users' = [users EXCEPT ![u] = PhoneUserRow(phone)]
             /\ generate_tokens(u)
             /\ issued' = issued \cup {NewAccess(u), NewRefresh(u)}
             /\ resp' = [r EXCEPT !.uid = u, !.status = 201, !.code = "OK",
                                  !.access = NewAccess(u), !.refresh = NewRefresh(u)]
          /\ otpAttempts' = [otpAttempts EXCEPT ![phone] = 0]
          /\ UNCHANGED sessions

\* register_email: the placeholder phone, "email_" + the address with '@'
\* replaced by "_at_".
PlaceholderPhone(email) ==
    [plus |-> FALSE, digits |-> "email_" \o email.local \o "_at_" \o email.domain]

EmailUserRow(email, password) ==
    create_user(PlaceholderPhone(email), email, password,
                "REGISTERED_USER", "PENDING_VERIFICATION", FALSE)

\* EmailRegistrationView.post with RegistrationService.register_email; the
\* user row is committed before send_mail runs (fail_silently=False).
EmailRegistration(email, password, mailOk) ==
    /\ UNCHANGED <<clockVars, resetVars, inflight, confirms, coreVars, smsJobs, sessions, otpVars, throttleVars, tokenVars, histVars>>
    /\ \/ /\ UsersByEmail(email) # {}
          /\ resp' = [NoResp EXCEPT !.op = "register_email",
                                    !.status = 400, !.code = "VALIDATION_ERROR"]
          /\ UNCHANGED users
       \/ /\ UsersByEmail(email) = {}
          /\ FreeUids # {}
          /\ LET u == CHOOSE x \in FreeUids : TRUE IN
             /\ users' = [users EXCEPT ![u] = EmailUserRow(email, password)]
             /\ resp' = IF mailOk
                        THEN [NoResp EXCEPT !.op = "register_email", !.uid = u,
                                            !.status = 201, !.code = "OK"]
                        ELSE [NoResp EXCEPT !.op = "register_email", !.uid = u,
                                            !.status = 500, !.code = "INTERNAL_ERROR"]

(***************************************************************************)
(* User: account security and soft delete                                  *)
(***************************************************************************)
\* lock_account: save(update_fields=['status', 'locked_until']).
lock_account(user, duration_minutes) ==
    [user EXCEPT !.status = "LOCKED", !.locked_until = now + duration_minutes * 60]

\* increment_failed_login: the row after the call.  At the threshold only
\* lock_account saves, so the stored counter keeps its old value.
increment_failed_login(user, max_attempts, lock_duration) ==
    IF user.failed_login_attempts + 1 >= max_attempts
    THEN lock_account(user, lock_duration)
    ELSE [user EXCEPT !.failed_login_attempts = @ + 1]

\* reset_failed_login: save(update_fields=['failed_login_attempts']).
reset_failed_login(user) == [user EXCEPT !.failed_login_attempts = 0]

unlock_account(user) ==
    [user EXCEPT !.status = "ACTIVE", !.locked_until = None,
                 !.failed_login_attempts = 0]

soft_delete_still_active(user) == [user EXCEPT !.deleted_at = now]

soft_delete(user) ==
    [user EXCEPT !.deleted_at = now, !.is_active = FALSE, !.status = "INACTIVE"]

restore(user) ==
    [user EXCEPT !.deleted_at = None, !.is_active = TRUE, !.status = "ACTIVE"]

ModelCall(op, u, row) ==
    /\ users[u].exists
    /\ users' = [users EXCEPT ![u] = row]
    /\ resp' = [NoResp EXCEPT !.op = op, !.uid = u]
    /\ UNCHANGED <<clockVars, resetVars, inflight, confirms, coreVars, smsJobs, sessions, otpVars, throttleVars, tokenVars, histVars>>

UnlockAccount(u) == ModelCall("unlock_account", u, unlock_account(users[u]))
SoftDelete(u) == ModelCall("soft_delete", u, soft_delete(users[u]))
Restore(u) == ModelCall("restore", u, restore(users[u]))

\* tasks.unlock_expired_accounts: rows with status LOCKED and locked_until < now.
UnlockExpiredAccounts ==
    /\ users' = [u \in UserIds |->
                    IF /\ users[u].exists
                       /\ users[u].status = "LOCKED"
                       /\ users[u].locked_until # None
                       /\ users[u].locked_until < now
                    THEN unlock_account(users[u]) ELSE users[u]]
    /\ resp' = [NoResp EXCEPT !.op = "unlock_expired_accounts"]
    /\ UNCHANGED <<clockVars, resetVars, inflight, confirms, coreVars, smsJobs, sessions, otpVars, throttleVars, tokenVars, histVars>>

(***************************************************************************)
(* Login views                                                             *)
(***************************************************************************)
\* What held for the account when the request arrived.
LoginResp(op, u) ==
    [NoResp EXCEPT !.op = op, !.uid = u,
                   !.locked = is_account_locked(users[u]),
                   !.lockExpired = /\ users[u].status = "LOCKED"
                                   /\ users[u].locked_until # None
                                   /\ users[u].locked_until <= now]

\* EmailLoginView.post with AuthenticationService.authenticate_email and login
EmailLogin(ip, email, password, hasJti) ==
    \/ LoginThrottled(ip, "login_email")
    \/ /\ LoginRateThrottle_allow(ip)
       /\ ThrottleSuccess(ip)
       /\ UNCHANGED <<clockVars, resetVars, inflight, confirms, coreVars, smsJobs, otpVars, histVars>>
       /\ \/ /\ UsersByEmail(email) = {}
             /\ resp' = [NoResp EXCEPT !.op = "login_email",
                                       !.status = 401, !.code = "AUTHENTICATION_FAILED"]
             /\ UNCHANGED <<userVars, tokenVars>>
          \/ \E u \in UsersByEmail(email) :
               LET r == [LoginResp("login_email", u)
                            EXCEPT !.correct = (users[u].password = password)] IN
               \/ /\ ~can_login(users[u])
                  /\ resp' = [r EXCEPT !.status = 401, !.code = "AUTHENTICATION_FAILED"]
                  /\ UNCHANGED <<userVars, tokenVars>>
               \/ /\ can_login(users[u])
                  /\ users[u].password # password
                  /\ users' = [users EXCEPT ![u] =
                                  increment_failed_login(users[u],
                                      ACCOUNT_LOCKOUT_THRESHOLD,
                                      ACCOUNT_LOCKOUT_DURATION_MINUTES)]
                  /\ resp' = [r EXCEPT !.status = 401, !.code = "AUTHENTICATION_FAILED"]
                  /\ UNCHANGED <<sessions, tokenVars>>
               \/ /\ can_login(users[u])
                  /\ users[u].password = password
                  /\ users' = [users EXCEPT ![u] = reset_failed_login(users[u])]
                  /\ login(u, hasJti, r)

\* EmailLoginView.post as the server runs it next to other requests, in the
\* two steps at which it meets the database.  First step: the throttle, then
\* authenticate_email up to `user = User.objects.get(email=email)`; the
\* request keeps the instance it loaded.
EmailLoginLoad(r, ip, email, password) ==
    /\ inflight[r] = NoRequest
    /\ \/ /\ LoginThrottled(ip, "login_email")
          /\ UNCHANGED inflight
       \/ /\ LoginRateThrottle_allow(ip)
          /\ ThrottleSuccess(ip)
          /\ UNCHANGED <<clockVars, resetVars, confirms, coreVars, smsJobs, userVars, otpVars, tokenVars, histVars>>
          /\ \/ /\ UsersByEmail(email) = {}
                /\ resp' = [NoResp EXCEPT !.op = "login_email",
                                          !.status = 401, !.code = "AUTHENTICATION_FAILED"]
                /\ UNCHANGED inflight
             \/ \E u \in UsersByEmail(email) :
                  /\ inflight' = [inflight EXCEPT ![r] =
                                     [user |-> users[u], uid |-> u, password |-> password]]
                  /\ UNCHANGED resp

\* save(update_fields=...): the named columns of the row are overwritten with
\* the values of the instance; the other columns keep what the table holds.
save(row, instance, update_fields) ==
    [row EXCEPT
        !.failed_login_attempts =
            IF "failed_login_attempts" \in update_fields
            THEN instance.failed_login_attempts ELSE @,
        !.status = IF "status" \in update_fields THEN instance.status ELSE @,
        !.locked_until =
            IF "locked_until" \in update_fields THEN instance.locked_until ELSE @]

\* The columns increment_failed_login saves: those of lock_account at the
\* threshold, the counter below it.
increment_failed_login_fields(user, max_attempts) ==
    IF user.failed_login_attempts + 1 >= max_attempts
    THEN {"status", "locked_until"}
    ELSE {"failed_login_attempts"}

\* Second step: the rest of authenticate_email, on the loaded instance
\* (can_login, check_password, increment_failed_login or
\* reset_failed_login, each saving from the instance), and login.
EmailLoginFinish(r, hasJti) ==
    /\ inflight[r] # NoRequest
    /\ inflight' = [inflight EXCEPT ![r] = NoRequest]
    /\ UNCHANGED <<clockVars, resetVars, confirms, coreVars, smsJobs, otpVars, throttleVars, histVars>>
    /\ LET user == inflight[r].user
           u == inflight[r].uid
           res == [NoResp EXCEPT !.op = "login_email", !.uid = u,
                                 !.correct = (user.password = inflight[r].password),
                                 !.locked = is_account_locked(user)] IN
       \/ /\ ~can_login(user)
          /\ resp' = [res EXCEPT !.status = 401, !.code = "AUTHENTICATION_FAILED"]
          /\ UNCHANGED <<userVars, tokenVars>>
       \/ /\ can_login(user)
          /\ user.password # inflight[r].password
          /\ users' = [users EXCEPT ![u] =
                          save(@,
                               increment_failed_login(user,
                                   ACCOUNT_LOCKOUT_THRESHOLD,
                                   ACCOUNT_LOCKOUT_DURATION_MINUTES),
                               increment_failed_login_fields(user,
                                   ACCOUNT_LOCKOUT_THRESHOLD))]
          /\ resp' = [res EXCEPT !.status = 401, !.code = "AUTHENTICATION_FAILED"]
          /\ UNCHANGED <<sessions, tokenVars>>
       \/ /\ can_login(user)
          /\ user.password = inflight[r].password
          /\ users' = [users EXCEPT ![u] =
                          save(@, reset_failed_login(user), {"failed_login_attempts"})]
          /\ login(u, hasJti, res)

\* PhoneLoginInitView.post
PhoneLoginInit(ip, phone, otp) ==
    \/ LoginThrottled(ip, "login_phone_init")
    \/ /\ LoginRateThrottle_allow(ip)
       /\ ThrottleSuccess(ip)
       /\ UNCHANGED <<clockVars, resetVars, inflight, confirms, coreVars, userVars, tokenVars>>
       /\ \/ /\ UsersByPhone(phone) = {}
             /\ resp' = [NoResp EXCEPT !.op = "login_phone_init", !.status = 404, !.code = "USER_NOT_FOUND",
                                       !.prior = AcceptedInHour(phone),
                                       !.bound = BoundUsers(phone) # {}]
             /\ UNCHANGED <<otpVars, histVars, smsJobs>>
          \/ \E u \in UsersByPhone(phone) :
               LET r == [LoginResp("login_phone_init", u)
                            EXCEPT !.prior = AcceptedInHour(phone)] IN
               \/ /\ ~can_login(users[u])
                  /\ resp' = [r EXCEPT !.status = 403, !.code = "ACCOUNT_LOCKED"]
                  /\ UNCHANGED <<otpVars, histVars, smsJobs>>
               \/ /\ can_login(users[u])
                  /\ Len(otpLog[phone]) < MaxOtpRequests
                  /\ store_otp(phone, otp, "LOGIN")
                  /\ send_otp_sms_task_delay(phone, "LOGIN")
                  /\ resp' = [r EXCEPT !.status = 200, !.code = "OK"]
                  /\ UNCHANGED otpAttempts

\* PhoneLoginVerifyView.post with AuthenticationService.authenticate_phone
PhoneLoginVerify(ip, phone, otp, hasJti) ==
    \/ LoginThrottled(ip, "login_phone_verify")
    \/ /\ LoginRateThrottle_allow(ip)
       /\ ThrottleSuccess(ip)
       /\ verify_otp(phone, otp, "LOGIN")
       /\ UNCHANGED <<clockVars, resetVars, inflight, confirms, coreVars, smsJobs, resendCooldown, otpAttempts, otpLog, loggedOut>>
       /\ LET v == VerifyResp("login_phone_verify", phone, otp, "LOGIN") IN
          \/ /\ \/ ~verify_otp_ok(phone, otp, "LOGIN")
                \/ UsersByPhone(phone) = {}
             /\ resp' = [v EXCEPT !.status = 401, !.code = "AUTHENTICATION_FAILED"]
             /\ UNCHANGED <<userVars, tokenVars>>
          \/ /\ verify_otp_ok(phone, otp, "LOGIN")
             /\ \E u \in UsersByPhone(phone) :
                  LET r == [v EXCEPT !.uid = u,
                                     !.locked = LoginResp("x", u).locked,
                                     !.lockExpired = LoginResp("x", u).lockExpired] IN
                  \/ /\ ~can_login(users[u])
                     /\ resp' = [r EXCEPT !.status = 401,
                                          !.code = "AUTHENTICATION_FAILED"]
                     /\ UNCHANGED <<userVars, tokenVars>>
                  \/ /\ can_login(users[u])
                     /\ users' = [users EXCEPT ![u] = reset_failed_login(users[u])]
                     /\ login(u, hasJti, r)

(***************************************************************************)
(* Token views and request authentication                                  *)
(***************************************************************************)
GarbageToken == [jti |-> 0, typ |-> "garbage", uid |-> NoUid, exp |-> 0]

\* Token(raw).verify(): signature, expiry and token type.
TokenVerifies(token, typ) ==
    /\ token \in issued
    /\ token.typ = typ
    /\ now < token.exp

\* The Redis blacklist lookup imported by jwt_auth.py.
token_blacklist_exists(jti) == jti \in redisBlacklist

\* JWTAuthWithBlacklist.authenticate: a valid access token of an existing,
\* active user whose jti is not in the Redis blacklist.
Authenticates(token) ==
    /\ TokenVerifies(token, "access")
    /\ users[token.uid].exists
    /\ users[token.uid].is_active
    /\ ~token_blacklist_exists(token.jti)

\* A request to a view with permission IsAuthenticated.
AuthRequest(token) ==
    /\ resp' = [NoResp EXCEPT !.op = "auth_request", !.presented = token,
                              !.uid = token.uid,
                              !.status = IF Authenticates(token) THEN 200 ELSE 401,
                              !.code = IF Authenticates(token) THEN "OK" ELSE "ERROR"]
    /\ UNCHANGED <<clockVars, resetVars, inflight, confirms, coreVars, smsJobs, userVars, otpVars, throttleVars, tokenVars, histVars>>

\* TokenObtainView.post: TokenObtainPairSerializer authenticates phone and
\* password (ModelBackend: the row with that phone, active) and mints a pair;
\* any exception is answered 401 TOKEN_ERROR.
TokenObtain(phone, password) ==
    /\ UNCHANGED <<clockVars, resetVars, inflight, confirms, coreVars, smsJobs, userVars, otpVars, throttleVars, histVars>>
    /\ \/ /\ ~\E u \in UsersByPhone(phone) :
                  users[u].password = password /\ users[u].is_active
          /\ resp' = [NoResp EXCEPT !.op = "token_obtain",
                                    !.status = 401, !.code = "TOKEN_ERROR"]
          /\ UNCHANGED tokenVars
       \/ \E u \in UsersByPhone(phone) :
            /\ users[u].password = password
            /\ users[u].is_active
            /\ CanMint
            /\ generate_tokens(u)
            /\ issued' = issued \cup {NewAccess(u), NewRefresh(u)}
            /\ resp' = [LoginResp("token_obtain", u)
                           EXCEPT !.correct = TRUE, !.status = 200, !.code = "OK",
                                  !.access = NewAccess(u), !.refresh = NewRefresh(u)]

\* TokenRefreshSerializer.validate with ROTATE_REFRESH_TOKENS: the tokens
\* it returns.  The access token is derived first, then the refresh token
\* gets a new jti and expiry.
RotatedAccess(token) ==
    [jti |-> nextJti, typ |-> "access", uid |-> token.uid,
     exp |-> now + ACCESS_TOKEN_LIFETIME]
RotatedRefresh(token) ==
    IF ROTATE_REFRESH_TOKENS
    THEN [jti |-> nextJti + 1, typ |-> "refresh", uid |-> token.uid,
          exp |-> now + REFRESH_TOKEN_LIFETIME]
    ELSE token

\* BlacklistMixin.blacklist(): the simplejwt blacklist after rotation.
BlacklistAfterRotation(token) ==
    IF ROTATE_REFRESH_TOKENS /\ BLACKLIST_AFTER_ROTATION
    THEN sjBlacklist \cup {token.jti} ELSE sjBlacklist

\* TokenRefreshView.post with the presented token blacklisted before it is
\* verified.
Refresh_blacklist_first(token) ==
    LET r == [NoResp EXCEPT !.op = "refresh", !.presented = token,
                            !.uid = token.uid,
                            !.replay = token.jti \in sjBlacklist] IN
    /\ UNCHANGED <<clockVars, resetVars, inflight, confirms, coreVars, smsJobs, userVars, otpVars, throttleVars, histVars>>
    /\ \/ /\ token = NoToken
          /\ resp' = [r EXCEPT !.status = 401, !.code = "TOKEN_INVALID"]
          /\ UNCHANGED tokenVars
       \/ /\ token # NoToken
          /\ ~TokenVerifies(token, "refresh") \/ token.jti \in sjBlacklist
          /\ resp' = [r EXCEPT !.status = 500, !.code = "INTERNAL_ERROR"]
          /\ sjBlacklist' = sjBlacklist \cup {token.jti}
          /\ outstanding' = outstanding \cup {token}
          /\ UNCHANGED <<nextJti, appBlacklist, redisBlacklist, issued>>
       \/ /\ TokenVerifies(token, "refresh")
          /\ token.jti \notin sjBlacklist
          /\ ~users[token.uid].is_active
          /\ resp' = [r EXCEPT !.status = 401, !.code = "ERROR"]
          /\ UNCHANGED tokenVars
       \/ /\ TokenVerifies(token, "refresh")
          /\ token.jti \notin sjBlacklist
          /\ users[token.uid].is_active
          /\ CanMint
          /\ nextJti' = nextJti + 2
          /\ sjBlacklist' = BlacklistAfterRotation(token)
          /\ outstanding' = outstanding \cup {token, RotatedRefresh(token)}
          /\ UNCHANGED <<appBlacklist, redisBlacklist>>
          /\ IF token \in appBlacklist
             THEN /\ resp' = [r EXCEPT !.status = 401, !.code = "TOKEN_REVOKED"]
                  /\ issued' = issued
             ELSE /\ resp' = [r EXCEPT !.status = 200, !.code = "OK",
                                       !.access = RotatedAccess(token),
                                       !.refresh = RotatedRefresh(token)]
                  /\ issued' = issued \cup {RotatedAccess(token), RotatedRefresh(token)}

\* TokenRefreshView.post.  serializer.is_valid() returns False only for a
\* ValidationError (the field is missing); a TokenError raised by
\* RefreshToken(...) (bad signature, expired, wrong type, blacklisted) is not
\* caught and is answered 500.  The TOKEN_REVOKED answer reads the table
\* blacklisted_tokens after the serializer has rotated.
Refresh(token) ==
    LET r == [NoResp EXCEPT !.op = "refresh", !.presented = token,
                            !.uid = token.uid,
                            !.replay = token.jti \in sjBlacklist] IN
    /\ UNCHANGED <<clockVars, resetVars, inflight, confirms, coreVars, smsJobs, userVars, otpVars, throttleVars, histVars>>
    /\ \/ /\ token = NoToken
          /\ resp' = [r EXCEPT !.status = 401, !.code = "TOKEN_INVALID"]
          /\ UNCHANGED tokenVars
       \/ /\ token # NoToken
          /\ ~TokenVerifies(token, "refresh") \/ token.jti \in sjBlacklist
          /\ resp' = [r EXCEPT !.status = 500, !.code = "INTERNAL_ERROR"]
          /\ UNCHANGED tokenVars
       \/ /\ TokenVerifies(token, "refresh")
          /\ token.jti \notin sjBlacklist
          /\ ~users[token.uid].is_active
          /\ resp' = [r EXCEPT !.status = 401, !.code = "ERROR"]
          /\ UNCHANGED tokenVars
       \/ /\ TokenVerifies(token, "refresh")
          /\ token.jti \notin sjBlacklist
          /\ users[token.uid].is_active
          /\ CanMint
          /\ nextJti' = nextJti + 2
          /\ sjBlacklist' = BlacklistAfterRotation(token)
          /\ outstanding' = outstanding \cup {token, RotatedRefresh(token)}
          /\ UNCHANGED <<appBlacklist, redisBlacklist>>
          /\ IF token \in appBlacklist
             THEN /\ resp' = [r EXCEPT !.status = 401, !.code = "TOKEN_REVOKED"]
                  /\ issued' = issued
             ELSE /\ resp' = [r EXCEPT !.status = 200, !.code = "OK",
                                       !.access = RotatedAccess(token),
                                       !.refresh = RotatedRefresh(token)]
                  /\ issued' = issued \cup {RotatedAccess(token), RotatedRefresh(token)}

\* LogoutView.post.  Authentication first; then the handler reads
\* serializer.validated_data without having called is_valid(), which raises
\* AssertionError: the request is answered 500 and no statement after it runs.
Logout(access, refresh) ==
    /\ resp' = [NoResp EXCEPT !.op = "logout", !.presented = access,
                              !.refresh = refresh, !.uid = access.uid,
                              !.status = IF Authenticates(access) THEN 500 ELSE 401,
                              !.code = IF Authenticates(access)
                                       THEN "INTERNAL_ERROR" ELSE "ERROR"]
    /\ loggedOut' = IF Authenticates(access)
                    THEN loggedOut \cup {access, refresh} ELSE loggedOut
    /\ UNCHANGED <<clockVars, resetVars, inflight, confirms, coreVars, smsJobs, userVars, otpVars, throttleVars, tokenVars,
                   otpIssued, otpLog>>

(***************************************************************************)
(* Roles and permissions                                                   *)
(***************************************************************************)
\* User.has_permission
has_permission_stored(user, permission) ==
    IF user.is_superuser
    THEN TRUE
    ELSE permission \in user.permissions

has_permission(user, permission) ==
    IF user.is_superuser \/ user.role = "SUPER_ADMIN"
    THEN TRUE
    ELSE permission \in user.permissions

\* User.update_permissions: the row after save(update_fields=['permissions']).
update_permissions(user) == [user EXCEPT !.permissions = ROLE_PERMISSIONS(user.role)]

\* The row after user.role = role; user.save()
role_saved(user, role) ==
    [user EXCEPT !.role = role,
                 !.permissions = save_permissions(user.permissions, role)]

\* User.has_any_permission
has_any_permission(user, permissions) ==
    \E p \in permissions : has_permission(user, p)

\* RoleBasedPermission.has_permission for an authenticated user and a view
\* that declares required_roles and required_permissions (empty when absent).
RoleBasedPermission(user, required_roles, required_permissions) ==
    IF user.role = "SUPER_ADMIN" THEN TRUE
    ELSE IF required_roles # {} /\ user.role \notin required_roles THEN FALSE
    ELSE IF required_permissions # {}
            /\ ~has_any_permission(user, required_permissions) THEN FALSE
    ELSE TRUE

\* The declarations of role-gated views tried.
RequiredRoles == {{}, {"PHARMACY_ADMIN"}, {"DOCTOR", "PHARMACY_ADMIN"}}
RequiredPermissions == {{}, {"system.config"}, {"product.manage", "report.generate"}}

\* A request by the authenticated user u to a view guarded by
\* RoleBasedPermission; DRF answers 403 when the permission class refuses.
GatedRequest(u, required_roles, required_permissions) ==
    /\ users[u].exists
    /\ users[u].is_active
    /\ resp' = IF RoleBasedPermission(users[u], required_roles, required_permissions)
               THEN [NoResp EXCEPT !.op = "gated_view", !.uid = u,
                                   !.status = 200, !.code = "OK"]
               ELSE [NoResp EXCEPT !.op = "gated_view", !.uid = u,
                                   !.status = 403, !.code = "ERROR"]
    /\ UNCHANGED <<clockVars, resetVars, inflight, confirms, coreVars, smsJobs, userVars, otpVars, throttleVars, tokenVars, histVars>>

\* User.objects.create_user(phone, role=role)
CreateUser(phone, role) ==
    LET row == create_user(phone, NoEmail, "none", role, "PENDING_VERIFICATION", FALSE) IN
    /\ FreeUids # {}
    /\ ~IntegrityError(row)
    /\ LET u == CHOOSE x \in FreeUids : TRUE IN
       /\ users' = [users EXCEPT ![u] = row]
       /\ resp' = [NoResp EXCEPT !.op = "create_user", !.uid = u]
    /\ UNCHANGED <<clockVars, resetVars, inflight, confirms, coreVars, smsJobs, sessions, otpVars, throttleVars, tokenVars, histVars>>

\* User.objects.create_superuser(phone)
CreateSuperuser(phone) ==
    LET row == create_user(phone, NoEmail, "none", "SUPER_ADMIN", "ACTIVE", TRUE) IN
    /\ FreeUids # {}
    /\ ~IntegrityError(row)
    /\ LET u == CHOOSE x \in FreeUids : TRUE IN
       /\ users' = [users EXCEPT ![u] = row]
       /\ resp' = [NoResp EXCEPT !.op = "create_superuser", !.uid = u]
    /\ UNCHANGED <<clockVars, resetVars, inflight, confirms, coreVars, smsJobs, sessions, otpVars, throttleVars, tokenVars, histVars>>

ChangeRole(u, role) == ModelCall("change_role", u, role_saved(users[u], role))
UpdatePermissions(u) == ModelCall("update_permissions", u, update_permissions(users[u]))

(***************************************************************************)
(* Password reset                                                          *)
(***************************************************************************)
\* A row of password_reset_tokens; `id` stands for the random token string.
ResetTokenRow(id, u) ==
    [id |-> id, uid |-> u, expires_at |-> now + PASSWORD_RESET_TOKEN_LIFETIME,
     is_used |-> FALSE]

\* The body of the 200 answer of PasswordResetRequestView.
ResetAccepted ==
    [NoResp EXCEPT !.op = "password_reset_request", !.status = 200, !.code = "OK"]

\* PasswordResetRequestView.post with EmailService.send_password_reset_email:
\* only User.DoesNotExist is caught; the token row is committed before
\* send_mail runs (fail_silently=False), and mailOk is the delivery outcome.
PasswordResetRequest(email, mailOk) ==
    /\ UNCHANGED <<clockVars, smsJobs, inflight, confirms, coreVars, userVars, otpVars, throttleVars, tokenVars, histVars>>
    /\ \/ /\ UsersByEmail(email) = {}
          /\ resp' = ResetAccepted
          /\ UNCHANGED resetTokens
       \/ \E u \in UsersByEmail(email) :
            /\ Cardinality(resetTokens) < MaxResetTokens
            /\ resetTokens' = resetTokens \cup
                                 {ResetTokenRow(Cardinality(resetTokens) + 1, u)}
            /\ resp' = IF mailOk
                       THEN [ResetAccepted EXCEPT !.uid = u]
                       ELSE [NoResp EXCEPT !.op = "password_reset_request", !.uid = u,
                                           !.status = 500, !.code = "INTERNAL_ERROR"]

\* PasswordResetToken.is_expired
is_expired(reset_token) == now > reset_token.expires_at

\* PasswordResetConfirmView.post as the server runs it next to other
\* requests.  First step: PasswordResetToken.objects.get(token=...) and the
\* test of the loaded row; a missing, expired or used token is answered 400.
PasswordResetConfirmLoad(r, id, password) ==
    /\ confirms[r] = NoConfirm
    /\ UNCHANGED <<clockVars, resetVars, inflight, coreVars, smsJobs, userVars, otpVars, throttleVars,
                   tokenVars, histVars>>
    /\ LET res == [NoResp EXCEPT !.op = "password_reset_confirm"] IN
       \/ /\ ~\E t \in resetTokens : t.id = id
          /\ resp' = [res EXCEPT !.status = 400, !.code = "TOKEN_NOT_FOUND"]
          /\ UNCHANGED confirms
       \/ \E t \in resetTokens :
            /\ t.id = id
            /\ IF is_expired(t) \/ t.is_used
               THEN /\ resp' = [res EXCEPT !.uid = t.uid, !.status = 400,
                                           !.code = "TOKEN_INVALID"]
                    /\ UNCHANGED confirms
               ELSE /\ confirms' = [confirms EXCEPT ![r] =
                                       [token |-> t, password |-> password, at |-> now]]
                    /\ UNCHANGED resp

\* Second step: user.set_password(password); user.save(); then
\* reset_token.is_used = True; reset_token.save(), and the 200 answer.
PasswordResetConfirmFinish(r) ==
    /\ confirms[r] # NoConfirm
    /\ LET t == confirms[r].token IN
       /\ users' = [users EXCEPT ![t.uid].password = confirms[r].password]
       /\ resetTokens' = {IF x.id = t.id THEN [t EXCEPT !.is_used = TRUE] ELSE x :
                             x \in resetTokens}
       /\ resp' = [NoResp EXCEPT !.op = "password_reset_confirm", !.uid = t.uid,
                                 !.status = 200, !.code = "OK"]
    /\ confirms' = [confirms EXCEPT ![r] = NoConfirm]
    /\ UNCHANGED <<clockVars, inflight, coreVars, smsJobs, sessions, otpVars, throttleVars,
                   tokenVars, histVars>>

(***************************************************************************)
(* Celery tasks                                                            *)
(***************************************************************************)
\* Task.retry(exc=e), called for the run whose request.retries is
\* job.retries: below the limit the run ends with Retry and the job goes back
\* on the queue with one more retry; past the limit retry() raises the
\* exception it was given, `e`, so the handler for MaxRetriesExceededError
\* (which logs and returns False) is passed by and the job ends in failure
\* with `e` as its result.
retry(job) ==
    IF job.retries + 1 > max_retries
    THEN [job EXCEPT !.state = "FAILURE", !.result = "Exception"]
    ELSE [job EXCEPT !.retries = @ + 1]

\* send_otp_sms_task, one run by a worker: the gateway answers 200, or the
\* call fails (another status, a timeout, a connection error), which is
\* logged and handed to retry().
send_otp_sms_task(job, gatewayOk) ==
    /\ job \in smsJobs
    /\ job.state = "queued"
    /\ LET run == [job EXCEPT !.attempts = @ + 1] IN
       smsJobs' = (smsJobs \ {job}) \cup
                     {IF gatewayOk
                      THEN [run EXCEPT !.state = "SUCCESS", !.result = "True"]
                      ELSE retry([run EXCEPT !.errors = @ \cup {"Failed to send OTP SMS"}])}
    /\ UNCHANGED <<clockVars, resetVars, inflight, confirms, coreVars, userVars, otpVars, throttleVars,
                   tokenVars, histVars, resp>>

(***************************************************************************)
(* Specifications                                                          *)
(***************************************************************************)
\* OTP issue and verification, phone registration and phone login.
NextOTP ==
    \/ \E d \in OtpTicks : Tick(d)
    \/ \E ip \in ClientIPs, phone \in OtpPhones, otp \in OtpCodes :
         \/ \E purpose \in Purposes : OTPSend(ip, phone, purpose, otp)
         \/ \E purpose \in Purposes : OTPVerify(phone, otp, purpose)
         \/ PhoneRegistrationInit(ip, phone, otp)
         \/ PhoneRegistrationVerify(phone, otp)
         \/ PhoneLoginInit(ip, phone, otp)

SpecOTP == Init /\ [][NextOTP]_vars

\* OTP requests and the workers that deliver the codes.
NextSms ==
    \/ \E d \in OtpTicks : Tick(d)
    \/ \E ip \in ClientIPs, phone \in OtpPhones, otp \in OtpCodes :
         \E purpose \in Purposes : OTPSend(ip, phone, purpose, otp)
    \/ \E job \in smsJobs, gatewayOk \in BOOLEAN : send_otp_sms_task(job, gatewayOk)

SpecSms == Init /\ [][NextSms]_vars

\* Phone registration and phone OTP login.
NextPhone ==
    \/ \E ip \in ClientIPs, phone \in LoginPhones, otp \in OtpCodes :
         \/ PhoneRegistrationInit(ip, phone, otp)
         \/ PhoneRegistrationVerify(phone, otp)
         \/ PhoneLoginInit(ip, phone, otp)
         \/ \E hasJti \in BOOLEAN : PhoneLoginVerify(ip, phone, otp, hasJti)
    \/ \E u \in UserIds : SoftDelete(u) \/ Restore(u)

SpecPhone == Init /\ [][NextPhone]_vars

\* Email registration and login, lockout, soft delete.
NextLogin ==
    \/ \E d \in LoginTicks : Tick(d)
    \/ \E email \in Emails, password \in Passwords, mailOk \in BOOLEAN :
         EmailRegistration(email, password, mailOk)
    \/ \E ip \in ClientIPs, email \in Emails, password \in Passwords,
          hasJti \in BOOLEAN : EmailLogin(ip, email, password, hasJti)
    \/ \E u \in UserIds : UnlockAccount(u) \/ SoftDelete(u) \/ Restore(u)
    \/ UnlockExpiredAccounts

SpecLogin == Init /\ [][NextLogin]_vars

\* Email logins worked on side by side.
NextConc ==
    \/ \E email \in Emails, password \in Passwords :
         EmailRegistration(email, password, TRUE)
    \/ \E r \in Requests, ip \in ClientIPs, email \in Emails, password \in Passwords :
         EmailLoginLoad(r, ip, email, password)
    \/ \E r \in Requests, hasJti \in BOOLEAN : EmailLoginFinish(r, hasJti)

SpecConc == Init /\ [][NextConc]_vars

\* Token issue, rotation, logout and request authentication.
NextToken ==
    \/ \E d \in TokenTicks : Tick(d)
    \/ \E email \in Emails, password \in Passwords, mailOk \in BOOLEAN :
         EmailRegistration(email, password, mailOk)
    \/ \E email \in Emails, password \in Passwords :
         TokenObtain(PlaceholderPhone(email), password)
    \/ \E token \in issued \cup {NoToken, GarbageToken} : Refresh(token)
    \/ \E access \in issued, refresh \in issued \cup {NoToken} : Logout(access, refresh)
    \/ \E token \in issued \cup {GarbageToken} : AuthRequest(token)

SpecToken == Init /\ [][NextToken]_vars

\* Email logins that lock an account, next to the token endpoints.
NextLocked ==
    \/ \E email \in Emails, password \in Passwords :
         EmailRegistration(email, password, TRUE)
    \/ \E ip \in ClientIPs, email \in Emails, password \in Passwords :
         EmailLogin(ip, email, password, FALSE)
    \/ \E email \in Emails, password \in Passwords :
         TokenObtain(PlaceholderPhone(email), password)
    \/ \E token \in issued \cup {NoToken} : Refresh(token)

SpecLocked == Init /\ [][NextLocked]_vars

\* User creation and role changes.
NextRBAC ==
    \/ \E phone \in Phones, role \in Roles : CreateUser(phone, role)
    \/ \E phone \in Phones : CreateSuperuser(phone)
    \/ \E u \in UserIds, role \in Roles : ChangeRole(u, role)
    \/ \E u \in UserIds : UpdatePermissions(u)
    \/ \E u \in UserIds, rr \in RequiredRoles, rp \in RequiredPermissions :
         GatedRequest(u, rr, rp)

SpecRBAC == Init /\ [][NextRBAC]_vars

\* Password reset requests for registered and unregistered addresses.
NextReset ==
    \/ \E d \in TokenTicks : Tick(d)
    \/ \E email \in Emails, password \in Passwords, mailOk \in BOOLEAN :
         EmailRegistration(email, password, mailOk)
    \/ \E email \in Emails, mailOk \in BOOLEAN : PasswordResetRequest(email, mailOk)
    \/ \E u \in UserIds : SoftDelete(u) \/ Restore(u)

SpecReset == Init /\ [][NextReset]_vars

\* Password-reset confirmations worked on side by side.
NextConfirm ==
    \/ \E d \in TokenTicks : Tick(d)
    \/ \E email \in Emails, password \in Passwords :
         EmailRegistration(email, password, TRUE)
    \/ \E email \in Emails : PasswordResetRequest(email, TRUE)
    \/ \E r \in Requests, id \in 1..MaxResetTokens, password \in Passwords :
         PasswordResetConfirmLoad(r, id, password)
    \/ \E r \in Requests : PasswordResetConfirmFinish(r)

SpecConfirm == Init /\ [][NextConfirm]_vars

\* Every way to log in, for accounts that are soft-deleted and restored.
NextDeleted ==
    \/ \E email \in Emails, password \in Passwords :
         EmailRegistration(email, password, TRUE)
    \/ \E ip \in ClientIPs, email \in Emails, password \in Passwords,
          hasJti \in BOOLEAN : EmailLogin(ip, email, password, hasJti)
    \/ \E email \in Emails, password \in Passwords :
         TokenObtain(PlaceholderPhone(email), password)
    \/ \E ip \in ClientIPs, phone \in OtpPhones, otp \in {"111111"} :
         \/ PhoneRegistrationInit(ip, phone, otp)
         \/ PhoneRegistrationVerify(phone, otp)
         \/ PhoneLoginInit(ip, phone, otp)
         \/ \E hasJti \in BOOLEAN : PhoneLoginVerify(ip, phone, otp, hasJti)
    \/ \E u \in UserIds : SoftDelete(u) \/ Restore(u)

SpecDeleted == Init /\ [][NextDeleted]_vars

(***************************************************************************)
(* Products, prescriptions and orders (core)                               *)
(*                                                                         *)
(* The viewsets of core/views.py with the serializers of                   *)
(* core/serializers.py.  A product is known by its slug; a prescription    *)
(* and an order by its position in the table (the primary key), 0 standing *)
(* for a null foreign key.  No handler opens a transaction, so each insert *)
(* and save is committed when it runs.                                     *)
(***************************************************************************)
\* rest_framework's IsAuthenticated behind JWT authentication: the token's
\* user exists and is active.
is_authenticated(u) == users[u].exists /\ users[u].is_active

\* The permission classes core/views.py imports from
\* authentication.permissions.
IsRegisteredUserOnly(user) == user.role = "REGISTERED_USER"
IsPharmacyAdminOrSuper(user) == user.role \in {"PHARMACY_ADMIN", "SUPER_ADMIN"}

\* Response(..., status=...) of a core view.
Response(op, status, code) ==
    [NoResp EXCEPT !.op = op, !.status = status, !.code = code]

\* ProductViewSet.create (ModelViewSet) with ProductWriteSerializer: slug is
\* unique; quantity_in_stock is a PositiveIntegerField.
ProductCreate(u, slug, requires_prescription, quantity_in_stock) ==
    /\ is_authenticated(u)
    /\ UNCHANGED <<clockVars, resetVars, inflight, confirms, smsJobs, userVars, otpVars,
                   throttleVars, tokenVars, histVars, prescriptions, orders, placing>>
    /\ IF ~IsPharmacyAdminOrSuper(users[u])
       THEN /\ resp' = Response("product_create", 403, "ERROR")
            /\ UNCHANGED <<products, stocked>>
       ELSE IF products[slug].exists
       THEN /\ resp' = Response("product_create", 400, "VALIDATION_ERROR")
            /\ UNCHANGED <<products, stocked>>
       ELSE /\ products' = [products EXCEPT ![slug] =
                               [exists |-> TRUE,
                                requires_prescription |-> requires_prescription,
                                quantity_in_stock |-> quantity_in_stock]]
            /\ stocked' = [stocked EXCEPT ![slug] = quantity_in_stock]
            /\ resp' = Response("product_create", 201, "OK")

\* ProductViewSet.inventory
inventory(u, slug, qty) ==
    /\ is_authenticated(u)
    /\ UNCHANGED <<clockVars, resetVars, inflight, confirms, smsJobs, userVars, otpVars,
                   throttleVars, tokenVars, histVars, prescriptions, orders, placing>>
    /\ IF ~IsPharmacyAdminOrSuper(users[u])
       THEN /\ resp' = Response("inventory", 403, "ERROR")
            /\ UNCHANGED <<products, stocked>>
       ELSE IF ~products[slug].exists
       THEN /\ resp' = Response("inventory", 404, "ERROR")
            /\ UNCHANGED <<products, stocked>>
       ELSE /\ products' = [products EXCEPT ![slug].quantity_in_stock = qty]
            /\ stocked' = [stocked EXCEPT
                              ![slug] = @ + qty - products[slug].quantity_in_stock]
            /\ resp' = Response("inventory", 200, "OK")

\* PrescriptionViewSet.create
PrescriptionCreate(u, fileOk) ==
    /\ is_authenticated(u)
    /\ UNCHANGED <<clockVars, resetVars, inflight, confirms, smsJobs, userVars, otpVars,
                   throttleVars, tokenVars, histVars, products, stocked, orders, placing>>
    /\ IF ~IsRegisteredUserOnly(users[u])
       THEN /\ resp' = Response("prescription_create", 403, "ERROR")
            /\ UNCHANGED prescriptions
       ELSE IF ~fileOk
       THEN /\ resp' = Response("prescription_create", 400, "VALIDATION_ERROR")
            /\ UNCHANGED prescriptions
       ELSE /\ Len(prescriptions) < MaxPrescriptions
            /\ prescriptions' = Append(prescriptions,
                                       [user |-> u, status |-> "PENDING", items |-> {}])
            /\ resp' = Response("prescription_create", 201, "OK")

\* The PrescriptionItem.objects.create calls of partial_update, entry by
\* entry: a product that does not exist, or one the prescription already
\* lists (unique_together), raises IntegrityError and ends the loop.
RECURSIVE PrescriptionItem_create(_, _, _)
PrescriptionItem_create(entries, i, rows) ==
    IF i > Len(entries) THEN [items |-> rows, ok |-> TRUE]
    ELSE IF \/ ~products[entries[i].product].exists
            \/ \E row \in rows : row.product = entries[i].product
    THEN [items |-> rows, ok |-> FALSE]
    ELSE PrescriptionItem_create(entries, i + 1, rows \cup {entries[i]})

\* The validation without the test of the instance's status.
PrescriptionVerifySerializer_is_valid_any_status(instance, data) ==
    /\ data.status \in {"APPROVED", "REJECTED", "absent"}
    /\ data.status = "APPROVED" => data.details

\* PrescriptionVerifySerializer.validate_status and validate, for request
\* data that carries `status` ("absent": the field is not sent) and, when
\* `details`, the doctor's name, registration number and signature.
PrescriptionVerifySerializer_is_valid(instance, data) ==
    /\ data.status \in {"APPROVED", "REJECTED", "absent"}
    /\ instance.status = "PENDING"
    /\ data.status = "APPROVED" => data.details

\* PrescriptionViewSet.partial_update, and verify, its alias.
partial_update(u, id, data) ==
    /\ is_authenticated(u)
    /\ UNCHANGED <<clockVars, resetVars, inflight, confirms, smsJobs, userVars, otpVars,
                   throttleVars, tokenVars, histVars, products, stocked, orders, placing>>
    /\ IF ~IsPharmacyAdminOrSuper(users[u])
       THEN /\ resp' = Response("prescription_verify", 403, "ERROR")
            /\ UNCHANGED prescriptions
       ELSE IF id \notin DOMAIN prescriptions
       THEN /\ resp' = Response("prescription_verify", 404, "ERROR")
            /\ UNCHANGED prescriptions
       ELSE IF ~PrescriptionVerifySerializer_is_valid(prescriptions[id], data)
       THEN /\ resp' = Response("prescription_verify", 400, "VALIDATION_ERROR")
            /\ UNCHANGED prescriptions
       ELSE LET saved == IF data.status = "absent" THEN prescriptions[id].status
                         ELSE data.status
                created == PrescriptionItem_create(data.items, 1, {})
            IN  IF saved = "APPROVED" /\ data.items # <<>>
                THEN /\ prescriptions' = [prescriptions EXCEPT
                                             ![id].status = saved,
                                             ![id].items = created.items]
                     /\ resp' = IF created.ok
                                THEN Response("prescription_verify", 200, "OK")
                                ELSE Response("prescription_verify", 500, "ERROR")
                ELSE /\ prescriptions' = [prescriptions EXCEPT ![id].status = saved]
                     /\ resp' = Response("prescription_verify", 200, "OK")

\* serializer.is_valid of OrderViewSet.create: every product of the items
\* exists, and the prescription, when one is named, is in the queryset of
\* the field: the user's own prescriptions in status APPROVED.
OrderWriteSerializer_is_valid(u, items, prescription) ==
    /\ \A i \in DOMAIN items : products[items[i].product].exists
    /\ prescription # 0 =>
          /\ prescription \in DOMAIN prescriptions
          /\ prescriptions[prescription].user = u
          /\ prescriptions[prescription].status = "APPROVED"

\* validated_data: the Product instance of every item and the Prescription
\* instance, as the rows were when the fields were validated.
validated_data(u, items, prescription) ==
    [user |-> u, items |-> items, prescription |-> prescription,
     products |-> [i \in DOMAIN items |-> products[items[i].product]],
     instance |-> IF prescription = 0 THEN NoPlacing.instance
                  ELSE prescriptions[prescription]]

\* The checks without the limit of the prescribed quantity.
PrescriptionError_unlimited(data) ==
    LET prescription_products ==
            {i \in DOMAIN data.items : data.products[i].requires_prescription}
        rx_items == prescriptions[data.prescription].items
    IN  IF prescription_products # {} /\ data.prescription = 0 THEN "required"
        ELSE IF data.prescription = 0 \/ prescription_products = {} THEN "none"
        ELSE IF data.instance.user # data.user THEN "not_own"
        ELSE IF data.instance.status # "APPROVED" THEN "not_approved"
        ELSE IF \E i \in prescription_products :
                   \A row \in rx_items : row.product # data.items[i].product
        THEN "not_listed"
        ELSE "none"

\* The checks of OrderWriteSerializer.create that precede the insert of the
\* order; rx_items is read from the table when create runs.
PrescriptionError(data) ==
    LET prescription_products ==
            {i \in DOMAIN data.items : data.products[i].requires_prescription}
        rx_items == prescriptions[data.prescription].items
    IN  IF prescription_products # {} /\ data.prescription = 0 THEN "required"
        ELSE IF data.prescription = 0 \/ prescription_products = {} THEN "none"
        ELSE IF data.instance.user # data.user THEN "not_own"
        ELSE IF data.instance.status # "APPROVED" THEN "not_approved"
        ELSE IF \E i \in prescription_products :
                   \A row \in rx_items : row.product # data.items[i].product
        THEN "not_listed"
        ELSE IF \E i \in prescription_products : \E row \in rx_items :
                   /\ row.product = data.items[i].product
                   /\ data.items[i].quantity > row.quantity_prescribed
        THEN "exceeds_prescribed"
        ELSE "none"

\* The loop of OrderWriteSerializer.create over the items, from item i on:
\* rows are the order items inserted so far and table is core_product.  The
\* stock test and the decrement use the instance of validated_data;
\* product.save(update_fields=["quantity_in_stock"]) writes the instance's
\* value.  A second item for a product of the order raises IntegrityError
\* (unique_together).
RECURSIVE OrderItem_create(_, _, _, _)
OrderItem_create(data, i, rows, table) ==
    IF i > Len(data.items) THEN [items |-> rows, products |-> table, status |-> 201]
    ELSE LET product == data.products[i]
             quantity == data.items[i].quantity
             slug == data.items[i].product
         IN  IF product.quantity_in_stock < quantity
             THEN [items |-> rows, products |-> table, status |-> 400]
             ELSE IF \E row \in rows : row.product = slug
             THEN [items |-> rows, products |-> table, status |-> 500]
             ELSE OrderItem_create(data, i + 1, rows \cup {data.items[i]},
                      [table EXCEPT ![slug].quantity_in_stock =
                                        product.quantity_in_stock - quantity])

\* OrderWriteSerializer.create
OrderWriteSerializer_create(data) ==
    IF PrescriptionError(data) # "none"
    THEN /\ resp' = Response("order_create", 400, "VALIDATION_ERROR")
         /\ UNCHANGED <<products, prescriptions, orders>>
    ELSE LET placed == OrderItem_create(data, 1, {}, products) IN
         /\ Len(orders) < MaxOrders
         /\ orders' = Append(orders, [user |-> data.user,
                                      prescription |-> data.prescription,
                                      items |-> placed.items])
         /\ products' = placed.products
         /\ prescriptions' =
                IF /\ placed.status = 201
                   /\ data.prescription # 0
                   /\ data.instance.status = "APPROVED"
                THEN [prescriptions EXCEPT ![data.prescription].status = "USED"]
                ELSE prescriptions
         /\ resp' = Response("order_create", placed.status,
                             IF placed.status = 201 THEN "OK"
                             ELSE IF placed.status = 400 THEN "VALIDATION_ERROR"
                             ELSE "ERROR")

\* OrderViewSet.create, one request at a time.
OrderCreate(u, items, prescription) ==
    /\ is_authenticated(u)
    /\ UNCHANGED <<clockVars, resetVars, inflight, confirms, smsJobs, userVars, otpVars,
                   throttleVars, tokenVars, histVars, stocked, placing>>
    /\ IF ~IsRegisteredUserOnly(users[u])
       THEN /\ resp' = Response("order_create", 403, "ERROR")
            /\ UNCHANGED <<products, prescriptions, orders>>
       ELSE IF ~OrderWriteSerializer_is_valid(u, items, prescription)
       THEN /\ resp' = Response("order_create", 400, "VALIDATION_ERROR")
            /\ UNCHANGED <<products, prescriptions, orders>>
       ELSE OrderWriteSerializer_create(validated_data(u, items, prescription))

\* OrderViewSet.create as the server runs it next to other requests.  First
\* step: the permissions and serializer.is_valid, which loads the instances.
OrderCreateValidate(r, u, items, prescription) ==
    /\ placing[r] = NoPlacing
    /\ is_authenticated(u)
    /\ UNCHANGED <<clockVars, resetVars, inflight, confirms, smsJobs, userVars, otpVars,
                   throttleVars, tokenVars, histVars, products, stocked, prescriptions,
                   orders>>
    /\ IF ~IsRegisteredUserOnly(users[u])
       THEN /\ resp' = Response("order_create", 403, "ERROR")
            /\ UNCHANGED placing
       ELSE IF ~OrderWriteSerializer_is_valid(u, items, prescription)
       THEN /\ resp' = Response("order_create", 400, "VALIDATION_ERROR")
            /\ UNCHANGED placing
       ELSE /\ placing' = [placing EXCEPT ![r] = validated_data(u, items, prescription)]
            /\ UNCHANGED resp

\* Second step: serializer.save(), which runs OrderWriteSerializer.create on
\* the instances loaded in the first.
OrderCreateSave(r) ==
    /\ placing[r] # NoPlacing
    /\ placing' = [placing EXCEPT ![r] = NoPlacing]
    /\ UNCHANGED <<clockVars, resetVars, inflight, confirms, smsJobs, userVars, otpVars,
                   throttleVars, tokenVars, histVars, stocked>>
    /\ OrderWriteSerializer_create(placing[r])

\* The quantity of a product in the order items of the first n orders.
RECURSIVE Ordered(_, _)
Ordered(slug, n) ==
    IF n = 0 THEN 0
    ELSE Ordered(slug, n - 1)
            + (IF \E item \in orders[n].items : item.product = slug
               THEN (CHOOSE item \in orders[n].items : item.product = slug).quantity
               ELSE 0)

\* The products the pharmacy lists: a prescription-only medicine and one that
\* is sold over the counter.
Catalogue == {[slug |-> "p1", requires_prescription |-> TRUE],
              [slug |-> "p2", requires_prescription |-> FALSE]}
\* The accounts that use the core views: a customer and a pharmacy admin.
Accounts == {[phone |-> [plus |-> FALSE, digits |-> "8801711"], role |-> "REGISTERED_USER"],
             [phone |-> [plus |-> FALSE, digits |-> "8801812"], role |-> "PHARMACY_ADMIN"]}

\* Products, prescriptions and orders, one request at a time.
NextCore ==
    \/ \E account \in Accounts : CreateUser(account.phone, account.role)
    \/ \E u \in UserIds, product \in Catalogue, qty \in 1..MaxStock :
         ProductCreate(u, product.slug, product.requires_prescription, qty)
    \/ \E u \in UserIds, fileOk \in BOOLEAN : PrescriptionCreate(u, fileOk)
    \/ \E u \in UserIds, id \in 1..MaxPrescriptions, data \in VerifyData :
         partial_update(u, id, data)
    \/ \E u \in UserIds, items \in ItemLists, prescription \in 0..MaxPrescriptions :
         OrderCreate(u, items, prescription)

SpecCore == Init /\ [][NextCore]_vars

\* Stock and orders without prescriptions, one request at a time.
NextStock ==
    \/ \E account \in Accounts : CreateUser(account.phone, account.role)
    \/ \E u \in UserIds, product \in Catalogue, qty \in 1..MaxStock :
         ProductCreate(u, product.slug, product.requires_prescription, qty)
    \/ \E u \in UserIds, slug \in ProductIds, qty \in 0..MaxStock : inventory(u, slug, qty)
    \/ \E u \in UserIds, items \in ItemLists : OrderCreate(u, items, 0)

SpecStock == Init /\ [][NextStock]_vars

\* Order creations of one line item each, worked on side by side.
NextCoreConc ==
    \/ \E account \in Accounts : CreateUser(account.phone, account.role)
    \/ \E u \in UserIds, product \in Catalogue, qty \in 1..MaxStock :
         ProductCreate(u, product.slug, product.requires_prescription, qty)
    \/ \E r \in Requests, u \in UserIds, items \in {l \in ItemLists : Len(l) = 1} :
         OrderCreateValidate(r, u, items, 0)
    \/ \E r \in Requests : OrderCreateSave(r)

SpecCoreConc == Init /\ [][NextCoreConc]_vars

\* Order creations of one line item each with a prescription, for the
\* prescription-only medicine, worked on side by side.
NextRxConc ==
    \/ \E account \in Accounts : CreateUser(account.phone, account.role)
    \/ \E u \in UserIds, product \in {c \in Catalogue : c.requires_prescription},
          qty \in 1..MaxStock :
         ProductCreate(u, product.slug, product.requires_prescription, qty)
    \/ \E u \in UserIds : PrescriptionCreate(u, TRUE)
    \/ \E u \in UserIds, id \in 1..MaxPrescriptions, data \in VerifyData :
         partial_update(u, id, data)
    \/ \E r \in Requests, u \in UserIds, items \in {l \in ItemLists : Len(l) = 1},
          prescription \in 0..MaxPrescriptions :
         OrderCreateValidate(r, u, items, prescription)
    \/ \E r \in Requests : OrderCreateSave(r)

SpecRxConc == Init /\ [][NextRxConc]_vars

\* Every operation.
Next ==
    NextOTP \/ NextPhone \/ NextLogin \/ NextToken \/ NextRBAC \/ NextReset
        \/ NextDeleted \/ NextSms \/ NextConc \/ NextLocked
        \/ NextConfirm \/ NextCore \/ NextStock \/ NextCoreConc \/ NextRxConc

Spec == Init /\ [][Next]_vars

(***************************************************************************)
(* Properties                                                              *)
(***************************************************************************)
VerifyOps == {"otp_verify", "register_phone_verify", "login_phone_verify"}
IssueOps == {"otp_send", "register_phone_init", "login_phone_init"}
LoginOps == {"login_email", "login_phone_verify"}
NoTokens == resp.access = NoToken /\ resp.refresh = NoToken

\* C1: once an account has been locked by the threshold number of wrong
\* passwords, the next login attempt for it (whatever the password) is
\* answered AccountLocked, HTTP 423, and carries no tokens.
C1_LockedLoginIs423 ==
    (resp.op = "login_email" /\ resp.locked)
        => (resp.status = 423 /\ resp.code = "ACCOUNT_LOCKED" /\ NoTokens)

\* C2: an access token that was presented in a logout request is rejected by
\* every later authenticated request.
C2_LoggedOutAccessRejected ==
    (resp.op = "auth_request" /\ resp.presented \in loggedOut)
        => resp.status = 401

\* C3: a refresh token that was already rotated is rejected with TokenRevoked
\* (401 TOKEN_REVOKED) when presented again, and the pair a successful
\* refresh returns is accepted.
C3_RotatedRefreshRevoked ==
    /\ (resp.op = "refresh" /\ resp.replay)
          => (resp.status = 401 /\ resp.code = "TOKEN_REVOKED" /\ NoTokens)
    /\ (resp.op = "refresh" /\ resp.status = 200)
          => /\ Authenticates(resp.access)
             /\ TokenVerifies(resp.refresh, "refresh")
             /\ resp.refresh.jti \notin sjBlacklist

\* C4: an OTP is single-use: verifying again the code that already passed
\* verify_otp for the same phone and purpose, with no new OTP stored in
\* between, fails; OTPVerifyView answers 400 OTP_INVALID.
C4_OtpSingleUse ==
    (resp.op \in VerifyOps /\ resp.replay)
        => /\ resp.status \notin {200, 201}
           /\ NoTokens
           /\ resp.op = "otp_verify" => (resp.status = 400 /\ resp.code = "OTP_INVALID")

C4_Witness ==
    /\ resp.op = "otp_verify"
    /\ resp.replay
    /\ resp.status = 400
    /\ resp.code = "OTP_INVALID"

\* C5: once the resend limit of OTP requests has been accepted for a phone
\* within one hour, a further OTP request for it through any issuing entry
\* point is not accepted (no code is stored) and, unless the request fails
\* validation or the user lookup first, it is answered 429.
C5_ResendLimit ==
    (resp.op \in IssueOps /\ resp.prior >= OTP_MAX_RESEND_ATTEMPTS)
        => /\ resp.status # 200
           /\ resp.code \notin {"VALIDATION_ERROR", "USER_NOT_FOUND", "ACCOUNT_LOCKED"}
                 => resp.status = 429

\* C6: for every user whose role is not SUPER_ADMIN and every capability,
\* has_permission agrees with the role table entry of the user's current role.
C6_EvaluatorMatchesRoleTable ==
    \A u \in UserIds :
        (users[u].exists /\ users[u].role # "SUPER_ADMIN")
            => \A c \in Capabilities :
                   has_permission(users[u], c) <=> c \in ROLE_PERMISSIONS(users[u].role)

\* C7: the code stored at time t is not accepted later than t + TTL: a
\* verification of that code more than OTP_EXPIRY_MINUTES * 60 seconds after
\* it was stored fails; OTPVerifyView answers 400 OTP_INVALID.
C7_OtpExpires ==
    (resp.op \in VerifyOps /\ resp.age # None /\ resp.age > OTP_EXPIRY_MINUTES * 60)
        => /\ resp.status \notin {200, 201}
           /\ NoTokens
           /\ resp.op = "otp_verify" => (resp.status = 400 /\ resp.code = "OTP_INVALID")

C7_Witness ==
    /\ resp.op = "otp_verify"
    /\ resp.age = OTP_EXPIRY_MINUTES * 60 + 1
    /\ ~resp.replay
    /\ resp.status = 400
    /\ resp.code = "OTP_INVALID"

\* C8: once the lock duration has elapsed for an account locked by failed
\* logins, a login with the correct password succeeds, and the login itself
\* clears the lock and leaves the failed counter at 0.
C8_ExpiredLockLoginSucceeds ==
    (resp.op = "login_email" /\ resp.lockExpired /\ resp.correct)
        => /\ resp.status = 200
           /\ users[resp.uid].failed_login_attempts = 0
           /\ users[resp.uid].locked_until = None
           /\ users[resp.uid].status # "LOCKED"

\* C9: every successful login leaves the stored failed counter at 0 and the
\* lock fields cleared: locked_until null and status not LOCKED.
C9_SuccessfulLoginClearsLock ==
    (resp.op \in LoginOps /\ resp.status = 200)
        => /\ users[resp.uid].failed_login_attempts = 0
           /\ users[resp.uid].locked_until = None
           /\ users[resp.uid].status # "LOCKED"

\* C10: a refresh token that was presented in a logout request is refused by
\* the refresh endpoint with TokenRevoked (401 TOKEN_REVOKED), and no new
\* tokens are returned.
C10_LoggedOutRefreshRevoked ==
    (resp.op = "refresh" /\ resp.presented \in loggedOut
                          /\ resp.presented.typ = "refresh")
        => (resp.status = 401 /\ resp.code = "TOKEN_REVOKED" /\ NoTokens)

\* C11: the answer to a password-reset request is the same 200 response
\* whether or not an account exists for the address, whatever the outcome of
\* the mail delivery: every answer equals the one given for an unknown address.
C11_ResetAnswerIndependent ==
    resp.op = "password_reset_request"
        => (resp.status = ResetAccepted.status /\ resp.code = ResetAccepted.code)

\* C12: a user whose role is SUPER_ADMIN passes the evaluator for every
\* capability and passes every role-gated view, whatever the stored
\* permission list and whatever roles and permissions the view requires.
C12_SuperAdminAlwaysAllowed ==
    /\ \A u \in UserIds :
         (users[u].exists /\ users[u].role = "SUPER_ADMIN")
             => /\ \A c \in Capabilities : has_permission(users[u], c)
                /\ \A rr \in RequiredRoles, rp \in RequiredPermissions :
                     RoleBasedPermission(users[u], rr, rp)
    /\ (resp.op = "gated_view" /\ users[resp.uid].role = "SUPER_ADMIN")
           => resp.status = 200

\* A SUPER_ADMIN without the superuser flag whose stored list lacks
\* system.config has been let through a view that requires it.
C12_Witness ==
    /\ resp.op = "gated_view"
    /\ resp.status = 200
    /\ users[resp.uid].role = "SUPER_ADMIN"
    /\ ~users[resp.uid].is_superuser
    /\ "system.config" \notin users[resp.uid].permissions

\* C13: lockout is monotonic: a failed login attempt that arrives while the
\* account is locked changes neither the stored lock expiry nor the stored
\* failed-login counter of that account.
C13_LockoutMonotonic ==
    [][(resp'.op \in LoginOps /\ resp'.locked /\ resp'.status # 200)
          => /\ users'[resp'.uid].locked_until = users[resp'.uid].locked_until
             /\ users'[resp'.uid].failed_login_attempts
                    = users[resp'.uid].failed_login_attempts]_vars

\* A wrong password was refused one minute into the lock, and the lock still
\* ends when it was first set to end.
C13_Witness ==
    /\ resp.op = "login_email"
    /\ resp.locked
    /\ ~resp.correct
    /\ resp.status = 401
    /\ now = 60
    /\ users[resp.uid].locked_until = ACCOUNT_LOCKOUT_DURATION_MINUTES * 60

\* C14: an OTP request for a phone with fewer accepted requests in the current
\* hour than the maximum is accepted: the answer is 200, a code is stored
\* with the OTP lifetime, and the phone's resend counter goes up by one.
\* (A request refused by validation, for an unknown user or a locked account,
\* or by the per-address throttle is not an OTP request in this sense.)
C14_BelowLimitAccepted ==
    [][\A phone \in OtpPhones :
          (/\ resp'.op \in IssueOps
           /\ throttleHist' # throttleHist
           /\ ticks' = ticks
           /\ AcceptedInHour(phone) < OTP_MAX_RESEND_ATTEMPTS
           /\ resp'.code \notin {"VALIDATION_ERROR", "USER_NOT_FOUND", "ACCOUNT_LOCKED"})
          => /\ resp'.status = 200
             /\ \E purpose \in Purposes :
                  /\ otpCache'[<<phone, purpose>>].otp \in OtpCodes
                  /\ otpCache'[<<phone, purpose>>].exp = now + OTP_EXPIRY_MINUTES * 60
             /\ otpAttempts'[phone] = otpAttempts[phone] + 1]_vars

\* C15: completing phone registration with a verified code for a number that
\* is already bound to a non-deleted user is answered with a conflict error,
\* HTTP 400, for either spelling of the number (with or without '+'), and no
\* two user rows ever hold the same number.
C15_PhoneConflictIs400 ==
    /\ (resp.op = "register_phone_verify" /\ resp.bound) => resp.status = 400
    /\ \A u, v \in UserIds :
         (users[u].exists /\ users[v].exists /\ users[u].phone = users[v].phone)
             => u = v

\* C16: a soft-deleted user is never authenticated: while deleted_at is set,
\* every login attempt for the account (email and password, phone OTP, or
\* the token endpoint) fails, and no answer that carries tokens or reports a
\* successful login is given for a soft-deleted account.
C16_SoftDeletedNeverAuthenticated ==
    /\ (/\ resp.op \in {"login_email", "login_phone_init", "login_phone_verify",
                        "token_obtain"}
        /\ resp.uid # NoUid
        /\ users[resp.uid].deleted_at # None)
           => (resp.status \notin {200, 201} /\ NoTokens)
    /\ (resp.op \in {"login_email", "login_phone_verify", "token_obtain"}
        /\ (resp.status = 200 \/ ~NoTokens))
           => (resp.uid # NoUid /\ users[resp.uid].deleted_at = None)

\* The right password was refused for a soft-deleted account.
C16_Witness ==
    /\ resp.op = "login_email"
    /\ resp.correct
    /\ users[resp.uid].deleted_at # None
    /\ resp.status = 401
    /\ NoTokens

\* C17: a successful OTP verification answers with a registration token for
\* the verified number (which can then complete registration exactly once).
C17_VerifyMintsRegistrationToken ==
    (resp.op = "otp_verify" /\ resp.status = 200)
        => resp.registration_token # NoResp.registration_token

\* C18: a delivery job whose gateway call keeps failing runs at most
\* 1 + max_retries times and then ends with a logged error and the result
\* False, and a run of the job changes nothing of the response the dispatching
\* request was given.
C18_SmsJobBoundedAndFalse ==
    [][/\ \A job \in smsJobs' :
            /\ job.attempts <= 1 + max_retries
            /\ (job.state # "queued" /\ job.result # "True")
                  => /\ job.attempts = 1 + max_retries
                     /\ job.result = "False"
                     /\ job.errors # {}
       /\ (\E job \in smsJobs : job \notin smsJobs' /\ job.state = "queued")
             => resp' = resp]_vars

\* C19: an OTP request that is turned away by a rate limit (the throttle or
\* the resend cooldown) leaves every stored OTP record as it was, and each
\* code stored and not yet expired still verifies after the rejection.
C19_RejectedRequestKeepsOtp ==
    [][(resp'.op \in IssueOps /\ resp'.status \in {429, 500} /\ ticks' = ticks)
          => /\ otpCache' = otpCache
             /\ \A k \in DOMAIN otpCache :
                  verify_otp_ok(k[1], otpCache[k].otp, k[2])
                     => verify_otp_ok(k[1], otpCache[k].otp, k[2])']_vars

\* A request was turned away by the cooldown while a code issued earlier is
\* stored, unexpired and verifiable.
C19_Witness ==
    /\ resp.op = "otp_send"
    /\ resp.code = "OTP_COOLDOWN"
    /\ \E k \in DOMAIN otpCache :
         /\ otpCache[k].otp \in OtpCodes
         /\ verify_otp_ok(k[1], otpCache[k].otp, k[2])

\* C20: failed-login increments are atomic under concurrent logins: every
\* request that checks a wrong password against an account it found able to
\* log in leaves the stored counter one higher than it was just before the
\* request saved, or leaves the account locked, so that no more than
\* ACCOUNT_LOCKOUT_THRESHOLD wrong passwords are checked before the lock.
C20_IncrementsAtomic ==
    [][\A r \in Requests :
          (/\ inflight[r] # NoRequest
           /\ inflight'[r] = NoRequest
           /\ can_login(inflight[r].user)
           /\ inflight[r].user.password # inflight[r].password)
             => \/ users'[inflight[r].uid].status = "LOCKED"
                \/ users'[inflight[r].uid].failed_login_attempts
                      = users[inflight[r].uid].failed_login_attempts + 1]_vars

\* C23: while an account is locked (status LOCKED, or a lock expiry in the
\* future) no token-issuing endpoint - email login, phone OTP login, token
\* obtain, token refresh - answers with an access or refresh token of that user.
C23_LockedNoTokens ==
    (/\ resp.op \in {"login_email", "login_phone_verify", "token_obtain", "refresh"}
     /\ resp.uid # NoUid
     /\ users[resp.uid].exists
     /\ users[resp.uid].status = "LOCKED" \/ is_account_locked(users[resp.uid]))
        => NoTokens

\* C24: a refresh request that is answered with an error mints no token and
\* leaves the blacklists and the outstanding-token records as they were.
C24_FailedRefreshNoSideEffect ==
    [][(resp'.op = "refresh" /\ resp'.status # 200)
          => /\ issued' = issued
             /\ nextJti' = nextJti
             /\ outstanding' = outstanding
             /\ sjBlacklist' = sjBlacklist
             /\ appBlacklist' = appBlacklist
             /\ redisBlacklist' = redisBlacklist]_vars

\* A refresh token that was rotated before is presented again and refused,
\* with the rotation's records in the tables.
C24_Witness ==
    /\ resp.op = "refresh"
    /\ resp.status # 200
    /\ resp.presented \in issued
    /\ resp.presented.jti \in sjBlacklist
    /\ resp.presented \in outstanding
    /\ NoTokens

\* C27: a password-reset token changes a password at most once and never
\* after its expiry: a confirmation that is answered 200 and sets the
\* password found the token unexpired, and no confirmation with the same
\* token had succeeded before it.
C27_ResetTokenSingleUse ==
    [][\A r \in Requests :
          (confirms[r] # NoConfirm /\ confirms'[r] = NoConfirm /\ resp'.status = 200)
             => /\ confirms[r].at <= confirms[r].token.expires_at
                /\ \A t \in resetTokens :
                     t.id = confirms[r].token.id => ~t.is_used]_vars

\* C28: a user registered through the phone flow with the string p is found
\* again by a phone login started with the same p, also when p has a leading
\* '+': when every registration was made with the '+' spelling and a user is
\* bound to the number of a login request, the request is never answered
\* "user not found".
C28_RegisteredPhoneFoundAtLogin ==
    (/\ resp.op = "login_phone_init"
     /\ resp.bound
     /\ \A phone \in LoginPhones :
          ~phone.plus => otpIssued[<<phone, "REGISTRATION">>] = NoIssue)
        => resp.status # 404

\* C21: a step changes the status of a prescription only from PENDING to
\* APPROVED, from PENDING to REJECTED, or from APPROVED to USED, the last
\* only when an order is then linked to the prescription; REJECTED and USED
\* are never left.
C21_PrescriptionTransitions ==
    [][\A id \in DOMAIN prescriptions :
          LET old == prescriptions[id].status
              new == prescriptions'[id].status
          IN  old # new =>
                 \/ old = "PENDING" /\ new \in {"APPROVED", "REJECTED"}
                 \/ /\ old = "APPROVED"
                    /\ new = "USED"
                    /\ \E o \in DOMAIN orders' : orders'[o].prescription = id]_vars
C21_Witness ==
    /\ resp.op = "prescription_verify"
    /\ resp.status = 400
    /\ \E id \in DOMAIN prescriptions :
          /\ prescriptions[id].status = "USED"
          /\ \E o \in DOMAIN orders : orders[o].prescription = id

C25_OrderCreationAllOrNothing ==
    [][(resp'.op = "order_create" /\ resp'.status = 400) =>
          /\ orders' = orders
          /\ products' = products
          /\ prescriptions' = prescriptions]_vars

\* C26: no product is oversold: its quantity_in_stock is never negative and
\* the quantity in the persisted order items never exceeds the units that
\* were put into stock.
C26_NeverOversold ==
    \A slug \in ProductIds :
       /\ products[slug].quantity_in_stock >= 0
       /\ Ordered(slug, Len(orders)) <= stocked[slug]

\* C29: a prescription is linked to at most one order that holds items: once
\* an order has been created with it, no later or concurrent order creation
\* links it again.
C29_PrescriptionLinkedOnce ==
    \A id \in DOMAIN prescriptions :
       \A o1, o2 \in DOMAIN orders :
          (/\ orders[o1].prescription = id /\ orders[o1].items # {}
           /\ orders[o2].prescription = id /\ orders[o2].items # {}) => o1 = o2

====
